---- MODULE Spec2Model ----
(***************************************************************************)
(* Model of src/email_agent.py: one scheduled run of main_agent_workflow   *)
(* fetches the newest unread message over IMAP, asks the model backend for *)
(* a structured classification (at most three attempts), normalizes the    *)
(* parsed object, routes to one of three drafts, formats it and sends it.  *)
(*                                                                         *)
(* Python strings are sequences of one-character strings, so that          *)
(* re.sub, str.strip, str.lower and str.startswith are computed, not       *)
(* assumed.  JSON / Python values are records with a type tag.             *)
(***************************************************************************)
EXTENDS Integers, Sequences, FiniteSets, TLC

\* ------------------------------------------------------------------ bounds
\* Longest free part of a draft in the formatter's input set.
MaxLen == 3
\* Messages in the mailbox at the start.
NumMsgs == 2
\* Scheduled runs of main_agent_workflow against the same mailbox.
MaxRuns == 2
MaxRaw == 4

\* ------------------------------------------------------- Python values
\* A JSON value as json.loads returns it (or Python's None): a tagged record.
NullV == [t |-> "null", b |-> FALSE, n |-> 0, s |-> <<>>]
BoolV(x) == [t |-> "bool", b |-> x, n |-> 0, s |-> <<>>]
NumV(x) == [t |-> "num", b |-> FALSE, n |-> x, s |-> <<>>]
StrV(x) == [t |-> "str", b |-> FALSE, n |-> 0, s |-> x]
\* A list / an object with x elements (the elements themselves are never read).
ListV(x) == [t |-> "list", b |-> FALSE, n |-> x, s |-> <<>>]
ObjV(x) == [t |-> "obj", b |-> FALSE, n |-> x, s |-> <<>>]
\* Marks a key that the object does not hold; never a value of a dict.
AbsentV == [t |-> "absent", b |-> FALSE, n |-> 0, s |-> <<>>]

\* Python truthiness of a value, as `if x:` and `not x` read it.
Truthy(v) ==
    CASE v.t = "bool" -> v.b
      [] v.t = "num" -> v.n # 0
      [] v.t = "str" -> Len(v.s) > 0
      [] v.t = "list" -> v.n > 0
      [] v.t = "obj" -> v.n > 0
      [] OTHER -> FALSE

\* The five keys of the structured output.
Keys == {"is_technical", "request_meeting", "simple_reply_draft",
         "non_technical_reply_draft", "meeting_suggestion_draft"}

DraftKeys == {"simple_reply_draft", "non_technical_reply_draft",
              "meeting_suggestion_draft"}

\* What _run_ai_agent returns: None, or the dict json.loads produced.
NoneOut == [isNone |-> TRUE, d |-> <<>>]
DictOut(d) == [isNone |-> FALSE, d |-> d]

\* The dict holding exactly the keys whose value is not AbsentV.
MkObj(it, rm, s, n, m) ==
    LET raw == [k \in Keys |->
                  CASE k = "is_technical" -> it
                    [] k = "request_meeting" -> rm
                    [] k = "simple_reply_draft" -> s
                    [] k = "non_technical_reply_draft" -> n
                    [] OTHER -> m]
    IN [k \in {x \in Keys : raw[x].t # "absent"} |-> raw[k]]

\* dict.get(key, default)
DictGet(d, k, default) == IF k \in DOMAIN d THEN d[k] ELSE default

\* NotAiOutput with the test narrowed to the empty dict, so that None passes.
NotAiOutputMut(o) == ~o.isNone /\ DOMAIN o.d = {}

\* `not ai_output`: None and the empty dict are both falsy.
NotAiOutput(o) == o.isNone \/ DOMAIN o.d = {}

\* ------------------------------------------------------- Python strings
Upper == <<"A","B","C","D","E","F","G","H","I","J","K","L","M",
           "N","O","P","Q","R","S","T","U","V","W","X","Y","Z">>
LowerLetters == <<"a","b","c","d","e","f","g","h","i","j","k","l","m",
                  "n","o","p","q","r","s","t","u","v","w","x","y","z">>

LowerChar(c) ==
    IF \E i \in 1..26 : Upper[i] = c
    THEN LowerLetters[CHOOSE i \in 1..26 : Upper[i] = c]
    ELSE c

\* str.lower()
Lower(s) == [i \in 1..Len(s) |-> LowerChar(s[i])]

\* The characters str.strip() removes among those the model uses.
Whitespace == {" ", "\n", "\t", "\r"}

\* str.strip(): what lies between the first and the last character that is
\* not whitespace.
Strip(s) ==
    LET keep == {i \in 1..Len(s) : s[i] \notin Whitespace}
    IN IF keep = {} THEN <<>>
       ELSE SubSeq(s, CHOOSE i \in keep : \A j \in keep : i <= j,
                      CHOOSE i \in keep : \A j \in keep : j <= i)

\* str.startswith(prefix)
StartsWith(s, p) == Len(s) >= Len(p) /\ SubSeq(s, 1, Len(p)) = p

\* Where a match of the pattern <[^>]+> that starts at s[i] ends, 0 if none
\* starts there: '<', at least one character other than '>', then the first '>'.
TagEnd(s, i) ==
    IF i + 2 <= Len(s) /\ s[i] = "<" /\ s[i + 1] # ">"
       /\ \E j \in (i + 2)..Len(s) : s[j] = ">"
    THEN CHOOSE j \in (i + 2)..Len(s) :
            s[j] = ">" /\ \A k \in (i + 2)..(j - 1) : s[k] # ">"
    ELSE 0

\* Where the leftmost match of <[^>]+> in s starts, 0 if there is none.
TagStart(s) ==
    LET at == {i \in 1..Len(s) : TagEnd(s, i) > 0}
    IN IF at = {} THEN 0 ELSE CHOOSE i \in at : \A j \in at : i <= j

\* RemoveTags as re.sub(..., count=1) would do it: only the first match goes.
RemoveTagsMut(s) ==
    IF TagStart(s) = 0 THEN s
    ELSE SubSeq(s, 1, TagStart(s) - 1)
         \o SubSeq(s, TagEnd(s, TagStart(s)) + 1, Len(s))

\* re.sub(r'<[^>]+>', '', s): the leftmost match is removed and the scan goes
\* on behind it, so matches never overlap and the result is not rescanned.
RECURSIVE RemoveTags(_)
RemoveTags(s) ==
    IF TagStart(s) = 0 THEN s
    ELSE SubSeq(s, 1, TagStart(s) - 1)
         \o RemoveTags(SubSeq(s, TagEnd(s, TagStart(s)) + 1, Len(s)))

\* ------------------------------------------------- constants of the code
\* for i in range(3)
MaxAttempts == 3

SAFE_DEFAULT_REPLY ==
    <<"T","h","a","n","k"," ","y","o","u"," ","f","o","r"," ","r","e","a",
      "c","h","i","n","g"," ","o","u","t","."," ","I","'","m"," ","c","u",
      "r","r","e","n","t","l","y"," ","r","e","v","i","e","w","i","n","g",
      " ","y","o","u","r"," ","i","n","q","u","i","r","y"," ","a","n","d",
      " ","w","i","l","l"," ","s","e","n","d"," ","a"," ","p","r","o","p",
      "e","r",","," ","d","e","t","a","i","l","e","d"," ","r","e","s","p",
      "o","n","s","e"," ","s","h","o","r","t","l","y","."," ","B","e","s",
      "t"," ","r","e","g","a","r","d","s",",","\n","A","k","a","s","h"," ",
      "B","V">>

\* GreetingTokens with "dear" left out.
GreetingTokensMut ==
    { <<"h","e","l","l","o">>, <<"h","i">>,
      <<"t","h","a","n","k"," ","y","o","u">> }

\* The tuple given to startswith: ("hello", "hi", "dear", "thank you")
GreetingTokens ==
    { <<"h","e","l","l","o">>, <<"h","i">>, <<"d","e","a","r">>,
      <<"t","h","a","n","k"," ","y","o","u">> }

\* "Hello,\n\n"
HelloLine == <<"H","e","l","l","o",",","\n","\n">>

\* "Re: "
RePrefix == <<"R","e",":"," ">>

\* ------------------------------------------------ the workflow's functions
\* if isinstance(x, str): x = x.lower() == "true"   (any other value is kept)
CoerceFlag(v) ==
    IF v.t = "str" THEN BoolV(Lower(v.s) = <<"t","r","u","e">>) ELSE v

\* SelectKey with the two branches of the inner if exchanged.
SelectKeyMut(it, rm) ==
    IF Truthy(it)
    THEN IF Truthy(rm) THEN "simple_reply_draft"
                       ELSE "meeting_suggestion_draft"
    ELSE "non_technical_reply_draft"

\* The if/else router: the key of the draft taken as reply_draft.
SelectKey(it, rm) ==
    IF Truthy(it)
    THEN IF Truthy(rm) THEN "meeting_suggestion_draft"
                       ELSE "simple_reply_draft"
    ELSE "non_technical_reply_draft"

\* reply_draft.lower().startswith(("hello", "hi", "dear", "thank you"))
StartsWithGreeting(s) == \E p \in GreetingTokens : StartsWith(Lower(s), p)

\* The cleanup and the salutation applied to a draft that is a string.
FormatReply(s) ==
    LET cleaned == Strip(RemoveTags(s))
    IN IF ~StartsWithGreeting(cleaned) THEN HelloLine \o cleaned ELSE cleaned

\* str(x) as the f-string f"Re: {subject}" renders the subject.
SubjectText(v) == IF v.t = "str" THEN v.s ELSE <<"N","o","n","e">>

\* NoMessage as `if from_email is None` would test it.
NoMessageMut(f) == f.t = "null"

\* `if not from_email`: None and the empty string both end the run.
NoMessage(f) == ~Truthy(f)

\* The first match of <([^>]+)> in the From header gives the address;
\* without a match the whole header is taken.
ExtractFrom(hdr) ==
    IF TagStart(hdr) = 0 THEN hdr
    ELSE SubSeq(hdr, TagStart(hdr) + 1, TagEnd(hdr, TagStart(hdr)) - 1)

\* SleepTime as 2 ** i would give it: 1, then 2.
SleepTimeMut(i) == 2 ^ i

\* sleep_time = 2 ** (i + 1)
SleepTime(i) == 2 ^ (i + 1)

\* if i < 2: sleep and go on; else: return None
RetryAfter(i) == i < 2

\* ------------------------------------------------- the response extractor
\* A response text is a sequence of tokens, each standing for a chunk of
\* characters: the characters '{', '}' and ',', a newline, a word of prose
\* (no brace in it), or one member  "key": value  of a JSON object.
Tok(c) == [c |-> c, key |-> "", val |-> NullV]
Member(k, v) == [c |-> "m", key |-> k, val |-> v]

LBrace == Tok("{")
RBrace == Tok("}")
Comma == Tok(",")
Newline == Tok("\n")
Prose == Tok("p")

\* response.text.strip(): leading and trailing newlines go.
TextStrip(s) ==
    LET keep == {i \in 1..Len(s) : s[i] # Newline}
    IN IF keep = {} THEN <<>>
       ELSE SubSeq(s, CHOOSE i \in keep : \A j \in keep : i <= j,
                      CHOOSE i \in keep : \A j \in keep : j <= i)

\* SpanOf as the non-greedy pattern \{.*?\} would match: up to the first '}'.
SpanOfMut(s) ==
    LET opens == {i \in 1..Len(s) :
                    s[i] = LBrace /\ \E j \in (i + 1)..Len(s) : s[j] = RBrace}
        first == CHOOSE i \in opens : \A j \in opens : i <= j
        closes == {j \in (first + 1)..Len(s) : s[j] = RBrace}
    IN IF opens = {} THEN <<0, 0>>
       ELSE <<first, CHOOSE j \in closes : \A k \in closes : j <= k>>

\* re.search(r'\{.*\}', raw_content, re.DOTALL): the leftmost '{' that has a
\* '}' behind it, and from there (newlines included) up to the last '}'.
\* <<first, last>>, or <<0, 0>> when nothing matches.
SpanOf(s) ==
    LET opens == {i \in 1..Len(s) :
                    s[i] = LBrace /\ \E j \in (i + 1)..Len(s) : s[j] = RBrace}
        first == CHOOSE i \in opens : \A j \in opens : i <= j
        closes == {j \in (first + 1)..Len(s) : s[j] = RBrace}
    IN IF opens = {} THEN <<0, 0>>
       ELSE <<first, CHOOSE j \in closes : \A k \in closes : k <= j>>

\* The tokens of a span that JSON does not skip as whitespace.
JsonTokens(span) == SelectSeq(span, LAMBDA x : x # Newline)

\* json.loads accepts the span: '{', members separated by commas, '}'.
IsJsonObject(span) ==
    LET w == JsonTokens(span)
        n == Len(w)
    IN /\ n >= 2
       /\ w[1] = LBrace
       /\ w[n] = RBrace
       /\ (n = 2 \/ n % 2 = 1)
       /\ \A i \in 2..(n - 1) :
             IF i % 2 = 0 THEN w[i].c = "m" ELSE w[i] = Comma

\* The dict json.loads builds from an accepted span: for a key given twice
\* the last member stands.
JsonDict(span) ==
    LET w == JsonTokens(span)
        at(k) == {i \in 1..Len(w) : w[i].c = "m" /\ w[i].key = k}
    IN [k \in {w[i].key : i \in {j \in 1..Len(w) : w[j].c = "m"}} |->
          w[CHOOSE i \in at(k) : \A j \in at(k) : j <= i].val]

\* One pass through the try block on a response text: the span found (<<>>
\* if none), and either the parsed dict or the exception raised.
Extract(text) ==
    LET raw == TextStrip(text)
        sp == SpanOf(raw)
        span == IF sp[1] = 0 THEN <<>> ELSE SubSeq(raw, sp[1], sp[2])
    IN [span |-> span,
        ok |-> sp[1] # 0 /\ IsJsonObject(span),
        error |-> IF sp[1] = 0 THEN "no_json" ELSE "bad_json",
        obj |-> IF sp[1] # 0 /\ IsJsonObject(span)
                THEN JsonDict(span) ELSE <<>>]

\* The order in which a serialized object lists its keys.
KeyOrder == <<"is_technical", "simple_reply_draft",
              "non_technical_reply_draft", "request_meeting",
              "meeting_suggestion_draft">>

\* The text of the JSON object o, as the backend writes it.
Serialize(o) ==
    LET ks == SelectSeq(KeyOrder, LAMBDA k : k \in DOMAIN o)
    IN <<LBrace>>
       \o [i \in 1..(IF Len(ks) = 0 THEN 0 ELSE 2 * Len(ks) - 1) |->
             IF i % 2 = 1 THEN Member(ks[(i + 1) \div 2], o[ks[(i + 1) \div 2]])
             ELSE Comma]
       \o <<RBrace>>

\* What the latest backend call of the run gave: nothing yet, an exception
\* out of generate_content, or a response text.
NoResponse == [kind |-> "none", text |-> <<>>]
Raised == [kind |-> "raised", text |-> <<>>]
TextResponse(t) == [kind |-> "text", text |-> t]

\* Caught as `except ValueError` would catch: the call's and json.loads'
\* exceptions pass through.
CaughtMut(kind) == kind = "no_json"

\* except Exception: every failure of the try block lands in the handler.
Caught(kind) == kind \in {"transport", "no_json", "bad_json"}

\* ------------------------------------------------------------------ state
VARIABLES
    emailCreds,      \* EMAIL_ADDRESS and EMAIL_PASSWORD are both set
    clientOk,        \* gemini_client is not None
    mailbox,         \* the inbox: sequence of [hdr, subject, decodable, seen]
    runs,            \* runs of main_agent_workflow started so far
    pc,              \* where the current run stands
    latest_id,       \* _fetch_latest_unread_email: ids[-1], 0 before
    marked,          \* ids on which this run stored \Seen
    from_email,      \* main_agent_workflow's locals ...
    subject,
    attempts,        \* _run_ai_agent: backend calls made in this run
    failed,          \* _run_ai_agent: attempts that ended in the except branch
    sleeps,          \* _run_ai_agent: the time.sleep arguments, in order
    response,        \* _run_ai_agent: what the latest backend call gave
    raw_json_string, \* _run_ai_agent: the span the latest search matched
    network,         \* the network calls this run has made
    picked,          \* per message, how often a fetch stored \Seen on it
    abandoned,       \* the messages whose run gave up after three failures
    workers,         \* concurrent invocations: each one's place and locals
    ai_output,
    is_technical,
    request_meeting,
    drafts,          \* the three *_draft locals, by key
    route,           \* the key of the draft the router took, "" before
    reply_draft,
    final_subject,
    events,          \* the calls of this run, in order: fetch, classify, send
    sent,            \* this run's calls of _send_smtp_email: [to, subject, body, ok]
    outcome          \* how the run ended, "" while it runs

vars == <<emailCreds, clientOk, mailbox, runs, pc, latest_id, marked,
          from_email, subject, attempts, failed, sleeps, response,
          raw_json_string, ai_output,
          is_technical,
          request_meeting, drafts, route, reply_draft, final_subject,
          events, sent, outcome, network, picked, abandoned, workers>>

envVars == <<emailCreds, clientOk>>
fetchVars == <<latest_id, marked, from_email, subject>>
aiVars == <<attempts, failed, sleeps, response, raw_json_string, ai_output>>
composeVars == <<is_technical, request_meeting, drafts, route, reply_draft,
                 final_subject>>
obsVars == <<network, picked, abandoned, workers>>

\* ----------------------------------------------------------------- inputs
Digits == <<"1","2","3","4","5","6","7","8","9">>

\* The i-th message of the mailbox, by the shape of its From header and
\* whether its payload decodes.
Msg(i, kind) ==
    [hdr |-> CASE kind = "angle" -> <<"N"," ","<","u",Digits[i],"@","x",">">>
               [] kind = "nofrom" -> <<>>
               [] OTHER -> <<"u",Digits[i],"@","x">>,
     subject |-> <<"S",Digits[i]>>,
     decodable |-> kind # "undecodable",
     seen |-> FALSE]

MsgKinds == {"plain", "angle", "nofrom", "undecodable"}

Mailboxes ==
    UNION { { [i \in 1..n |-> Msg(i, k[i])] : k \in [1..n -> MsgKinds] }
            : n \in 0..NumMsgs }

\* The objects a backend response parses to in the workflow: the flags may
\* be missing, native or quoted; the drafts are all missing, all there, or
\* there with a null among them.
AiObjects ==
    { MkObj(it, rm, d[1], d[2], d[3]) :
        it \in {AbsentV, BoolV(TRUE), BoolV(FALSE)},
        rm \in {AbsentV, StrV(<<"T","r","u","e">>)},
        d \in { <<AbsentV, AbsentV, AbsentV>>,
                <<StrV(<<"<","b",">","s">>), StrV(<<"H","i"," ","n">>),
                  StrV(<<"m">>)>>,
                <<StrV(<<"<","b",">","s">>), NullV, StrV(<<"m">>)>> } }

\* Why a backend attempt fails: the call raises, the text has no {...} span,
\* or the span is not JSON.
FailureKinds == {"transport", "no_json", "bad_json"}

\* The response texts of the workflow: each object as the backend writes
\* it, a text without an object, and two objects side by side.
WorkflowTexts ==
    {Serialize(o) : o \in AiObjects}
        \cup {<<Prose>>, <<RBrace, Prose, LBrace>>,
              <<LBrace, Prose, RBrace>>,
              <<LBrace, RBrace, Newline, LBrace, RBrace>>}

NoDrafts == [k \in DraftKeys |-> NullV]

\* The invocations of main_agent_workflow that run side by side.
Workers == {1, 2}

\* An invocation that has not started.
IdleWorker == [pc |-> "idle", ids |-> {}, latest_id |-> 0,
               from_email |-> NullV, replied |-> FALSE]

\* ------------------------------------------------------------------- Init
Init ==
    /\ emailCreds \in BOOLEAN
    /\ clientOk \in BOOLEAN
    /\ mailbox \in Mailboxes
    /\ runs = 0
    /\ pc = "idle"
    /\ latest_id = 0
    /\ marked = {}
    /\ from_email = NullV
    /\ subject = NullV
    /\ attempts = 0
    /\ failed = 0
    /\ sleeps = <<>>
    /\ response = NoResponse
    /\ raw_json_string = <<>>
    /\ ai_output = NoneOut
    /\ is_technical = NullV
    /\ request_meeting = NullV
    /\ drafts = NoDrafts
    /\ route = ""
    /\ reply_draft = NullV
    /\ final_subject = <<>>
    /\ events = <<>>
    /\ sent = <<>>
    /\ outcome = ""
    /\ network = {}
    /\ picked = [i \in 1..Len(mailbox) |-> 0]
    /\ abandoned = {}
    /\ workers = [w \in Workers |-> IdleWorker]

\* ------------------------------------------------------ main_agent_workflow
\* The scheduler starts a run: main_agent_workflow calls the fetch.
StartRun ==
    /\ pc \in {"idle", "done"}
    /\ runs < MaxRuns
    /\ runs' = runs + 1
    /\ pc' = "fetch"
    /\ latest_id' = 0
    /\ marked' = {}
    /\ from_email' = NullV
    /\ subject' = NullV
    /\ attempts' = 0
    /\ failed' = 0
    /\ sleeps' = <<>>
    /\ response' = NoResponse
    /\ raw_json_string' = <<>>
    /\ ai_output' = NoneOut
    /\ is_technical' = NullV
    /\ request_meeting' = NullV
    /\ drafts' = NoDrafts
    /\ route' = ""
    /\ reply_draft' = NullV
    /\ final_subject' = <<>>
    /\ events' = <<"fetch">>
    /\ sent' = <<>>
    /\ outcome' = ""
    /\ network' = {}
    /\ UNCHANGED <<envVars, mailbox, picked, abandoned, workers>>

\* ------------------------------------------------ _fetch_latest_unread_email
\* Unseen as a search for ALL would answer: seen messages too.
UnseenMut == 1..Len(mailbox)

\* The ids mail.search(None, 'UNSEEN') answers with.
Unseen == {i \in 1..Len(mailbox) : ~mailbox[i].seen}

MaxOf(S) == CHOOSE x \in S : \A y \in S : y <= x

\* MarkSeen if the store left the flags as they are.
MarkSeenMut(mb, m) == mb

\* mail.store(m, '+FLAGS', '\\Seen') on the mailbox mb.
MarkSeen(mb, m) == [mb EXCEPT ![m].seen = TRUE]

\* return None, None, None
FetchReturnsNone ==
    /\ from_email' = NullV
    /\ subject' = NullV
    /\ pc' = "fetched"
    /\ UNCHANGED <<envVars, runs, aiVars, composeVars, events, sent, outcome,
                   picked, abandoned, workers>>

\* Credentials missing: nothing is contacted.
FetchNoCreds ==
    /\ pc = "fetch"
    /\ ~emailCreds
    /\ FetchReturnsNone
    /\ UNCHANGED <<mailbox, latest_id, marked, network>>

\* Login, select, search or store raises: caught, nothing was stored.
FetchImapError ==
    /\ pc = "fetch"
    /\ emailCreds
    /\ FetchReturnsNone
    /\ network' = network \cup {"imap_login"}
    /\ UNCHANGED <<mailbox, latest_id, marked>>

\* The UNSEEN search finds nothing.
FetchSearchEmpty ==
    /\ pc = "fetch"
    /\ emailCreds
    /\ Unseen = {}
    /\ FetchReturnsNone
    /\ network' = network \cup {"imap_login", "imap_search"}
    /\ UNCHANGED <<mailbox, latest_id, marked>>

\* latest_id = ids[-1]; mail.store(latest_id, '+FLAGS', '\\Seen')
FetchStore ==
    /\ pc = "fetch"
    /\ emailCreds
    /\ Unseen # {}
    /\ latest_id' = MaxOf(Unseen)
    /\ mailbox' = MarkSeen(mailbox, MaxOf(Unseen))
    /\ marked' = marked \cup {MaxOf(Unseen)}
    /\ pc' = "stored"
    /\ network' = network \cup {"imap_login", "imap_search", "imap_store"}
    /\ picked' = [picked EXCEPT ![MaxOf(Unseen)] = @ + 1]
    /\ UNCHANGED <<envVars, runs, from_email, subject, aiVars, composeVars,
                   events, sent, outcome, abandoned, workers>>

\* mail.fetch raises after the flag was stored: caught, returns None.
FetchRetrieveError ==
    /\ pc = "stored"
    /\ FetchReturnsNone
    /\ network' = network \cup {"imap_fetch"}
    /\ UNCHANGED <<mailbox, latest_id, marked>>

\* The payload does not decode: the exception is caught, returns None.
FetchDecodeError ==
    /\ pc = "stored"
    /\ ~mailbox[latest_id].decodable
    /\ FetchReturnsNone
    /\ network' = network \cup {"imap_fetch"}
    /\ UNCHANGED <<mailbox, latest_id, marked>>

\* return from_email, subject, body
FetchRetrieveOk ==
    /\ pc = "stored"
    /\ mailbox[latest_id].decodable
    /\ from_email' = StrV(ExtractFrom(mailbox[latest_id].hdr))
    /\ subject' = StrV(mailbox[latest_id].subject)
    /\ pc' = "fetched"
    /\ network' = network \cup {"imap_fetch"}
    /\ UNCHANGED <<envVars, mailbox, runs, latest_id, marked, aiVars,
                   composeVars, events, sent, outcome, picked, abandoned,
                   workers>>

\* if not from_email: return
MainNoMessage ==
    /\ pc = "fetched"
    /\ NoMessage(from_email)
    /\ outcome' = "no_message"
    /\ pc' = "done"
    /\ UNCHANGED <<envVars, obsVars, mailbox, runs, fetchVars, aiVars,
                   composeVars,
                   events, sent>>

\* otherwise: ai_output = _run_ai_agent(email_data)
MainCallAgent ==
    /\ pc = "fetched"
    /\ ~NoMessage(from_email)
    /\ events' = Append(events, "classify")
    /\ pc' = "classify"
    /\ UNCHANGED <<envVars, obsVars, mailbox, runs, fetchVars, aiVars,
                   composeVars,
                   sent, outcome>>

\* ------------------------------------------------------------ _run_ai_agent
\* if not gemini_client: return None   (no backend call is made)
AiNoClient ==
    /\ pc = "classify"
    /\ ~clientOk
    /\ ai_output' = NoneOut
    /\ pc' = "check_ai"
    /\ UNCHANGED <<envVars, obsVars, mailbox, runs, fetchVars, attempts, failed,
                   sleeps, response, raw_json_string, composeVars, events,
                   sent, outcome>>

\* Attempt i fails (the call, the extraction or json.loads raises): the
\* except branch sleeps and loops while i < 2, and returns None otherwise.
AiAttemptFail(kind) ==
    /\ pc = "classify"
    /\ clientOk
    /\ attempts < MaxAttempts
    /\ kind \in FailureKinds
    /\ attempts' = attempts + 1
    /\ IF Caught(kind)
       THEN /\ failed' = failed + 1
            /\ IF RetryAfter(attempts)
               THEN /\ sleeps' = Append(sleeps, SleepTime(attempts))
                    /\ UNCHANGED <<ai_output, pc>>
               ELSE /\ ai_output' = NoneOut
                    /\ pc' = "check_ai"
                    /\ UNCHANGED sleeps
            /\ UNCHANGED outcome
       ELSE \* an exception no handler takes ends the run on the spot
            /\ outcome' = "crashed"
            /\ pc' = "done"
            /\ UNCHANGED <<failed, sleeps, ai_output>>
    /\ network' = network \cup {"model"}
    /\ UNCHANGED <<envVars, mailbox, runs, fetchVars, composeVars, events,
                   sent, picked, abandoned, workers>>

\* Attempt i succeeds: return json.loads(raw_json_string)
AiAttemptOk(obj) ==
    /\ pc = "classify"
    /\ clientOk
    /\ attempts < MaxAttempts
    /\ attempts' = attempts + 1
    /\ ai_output' = DictOut(obj)
    /\ pc' = "check_ai"
    /\ network' = network \cup {"model"}
    /\ UNCHANGED <<envVars, mailbox, runs, fetchVars, failed, sleeps,
                   composeVars, events, sent, outcome, picked, abandoned,
                   workers>>

\* gemini_client.models.generate_content raises.
AiCallRaises ==
    /\ pc = "classify"
    /\ response' = Raised
    /\ UNCHANGED raw_json_string
    /\ AiAttemptFail("transport")

\* The call returns a response: the text is stripped, searched for a span
\* and the span is handed to json.loads.
AiResponse(text) ==
    /\ pc = "classify"
    /\ LET r == Extract(text)
       IN /\ response' = TextResponse(text)
          /\ raw_json_string' = r.span
          /\ IF r.ok THEN AiAttemptOk(r.obj) ELSE AiAttemptFail(r.error)

\* ---------------------------------------------- main_agent_workflow, go on
\* if not ai_output: return
MainAiAbort ==
    /\ pc = "check_ai"
    /\ NotAiOutput(ai_output)
    /\ outcome' = "ai_abort"
    /\ pc' = "done"
    /\ abandoned' = IF failed = MaxAttempts THEN abandoned \cup {latest_id}
                    ELSE abandoned
    /\ UNCHANGED <<envVars, mailbox, runs, fetchVars, aiVars, composeVars,
                   events, sent, network, picked, workers>>

MainAiProceed ==
    /\ pc = "check_ai"
    /\ ~NotAiOutput(ai_output)
    /\ pc' = "normalize"
    /\ UNCHANGED <<envVars, obsVars, mailbox, runs, fetchVars, aiVars,
                   composeVars,
                   events, sent, outcome>>

\* The .get calls with their defaults, the two isinstance coercions and
\* final_subject.
Normalize ==
    /\ pc = "normalize"
    /\ is_technical' =
          CoerceFlag(DictGet(ai_output.d, "is_technical", BoolV(FALSE)))
    /\ request_meeting' =
          CoerceFlag(DictGet(ai_output.d, "request_meeting", BoolV(FALSE)))
    /\ drafts' = [k \in DraftKeys |->
                    DictGet(ai_output.d, k, StrV(SAFE_DEFAULT_REPLY))]
    /\ final_subject' = RePrefix \o SubjectText(subject)
    /\ pc' = "route"
    /\ UNCHANGED <<envVars, obsVars, mailbox, runs, fetchVars, aiVars, route,
                   reply_draft, events, sent, outcome>>

\* if is_technical: if request_meeting: ... else: ... else: ...
Route ==
    /\ pc = "route"
    /\ route' = SelectKey(is_technical, request_meeting)
    /\ reply_draft' = drafts[SelectKey(is_technical, request_meeting)]
    /\ pc' = "format"
    /\ UNCHANGED <<envVars, obsVars, mailbox, runs, fetchVars, aiVars,
                   is_technical,
                   request_meeting, drafts, final_subject, events, sent,
                   outcome>>

\* re.sub on a value that is not a string raises TypeError, which nothing
\* catches: the run dies before the send.
FormatCrash ==
    /\ pc = "format"
    /\ reply_draft.t # "str"
    /\ outcome' = "crashed"
    /\ pc' = "done"
    /\ UNCHANGED <<envVars, obsVars, mailbox, runs, fetchVars, aiVars,
                   composeVars,
                   events, sent>>

\* The tag cleanup, the strip and the salutation.
FormatOk ==
    /\ pc = "format"
    /\ reply_draft.t = "str"
    /\ reply_draft' = StrV(FormatReply(reply_draft.s))
    /\ pc' = "send"
    /\ UNCHANGED <<envVars, obsVars, mailbox, runs, fetchVars, aiVars,
                   is_technical,
                   request_meeting, drafts, route, final_subject, events,
                   sent, outcome>>

\* ----------------------------------------------------------- _send_smtp_email
\* SendOutcome if the exceptions of the send were not caught.
SendOutcomeMut(ok) == IF ok THEN "completed" ELSE "crashed"

\* How the run ends after _send_smtp_email returned ok: every exception of
\* the send is caught there and turned into False, and the workflow only
\* prints a different line for it.
SendOutcome(ok) == IF ok THEN "completed" ELSE "completed"

\* One call of _send_smtp_email(from_email, final_subject, reply_draft) and
\* the end of the run, whatever it returned.
SendCall(ok) ==
    /\ pc = "send"
    /\ events' = Append(events, "send")
    /\ sent' = Append(sent, [to |-> from_email, subject |-> final_subject,
                             body |-> reply_draft, ok |-> ok])
    /\ outcome' = SendOutcome(ok)
    /\ pc' = "done"
    /\ network' = IF emailCreds THEN network \cup {"smtp"} ELSE network
    /\ UNCHANGED <<envVars, mailbox, runs, fetchVars, aiVars, composeVars,
                   picked, abandoned, workers>>

\* The message goes out: returns True.
SendOk == emailCreds /\ SendCall(TRUE)

\* Credentials missing, authentication refused or any other exception:
\* returns False.
SendFail == SendCall(FALSE)

\* ------------------------------------------------------------ specification
Next ==
    \/ StartRun
    \/ FetchNoCreds
    \/ FetchImapError
    \/ FetchSearchEmpty
    \/ FetchStore
    \/ FetchRetrieveError
    \/ FetchDecodeError
    \/ FetchRetrieveOk
    \/ MainNoMessage
    \/ MainCallAgent
    \/ AiNoClient
    \/ AiCallRaises
    \/ \E text \in WorkflowTexts : AiResponse(text)
    \/ MainAiAbort
    \/ MainAiProceed
    \/ Normalize
    \/ Route
    \/ FormatCrash
    \/ FormatOk
    \/ SendOk
    \/ SendFail

Spec == Init /\ [][Next]_vars

\* --------------------------------------- the composition on its own inputs
\* The values a flag key can hold: missing, null, native, quoted in several
\* spellings, another string, numbers, lists, objects.
FlagVals ==
    { AbsentV, NullV, BoolV(TRUE), BoolV(FALSE),
      StrV(<<"t","r","u","e">>), StrV(<<"T","r","u","E">>),
      StrV(<<"F","A","L","S","E">>), StrV(<<"y","e","s">>), StrV(<<>>),
      NumV(0), NumV(1), ListV(0), ListV(1), ObjV(1) }

\* The values a draft key can hold besides a plain string.
DraftVals(c) == { AbsentV, NullV, NumV(1), StrV(<<c>>) }

NormObjects ==
    { MkObj(it, rm, s, n, m) :
        it \in FlagVals, rm \in FlagVals, s \in DraftVals("s"),
        n \in DraftVals("n"), m \in DraftVals("m") }

\* Drafts for the formatter: every string over FmtAlphabet up to MaxLen,
\* bare or behind a prefix that is, or nearly is, a greeting or a tag.
FmtAlphabet == {"<", ">", " ", "h", "I"}

FmtStrings == UNION { [1..k -> FmtAlphabet] : k \in 0..MaxLen }

FmtPrefixes ==
    { <<>>, <<"H","e","l","l","o">>, <<"d","E","A","R">>,
      <<"T","h","a","n","k"," ","y","o","u">>, <<"t","h","a","n","k">>,
      <<"<","b",">">>, <<"\n">> }

FmtDrafts == { p \o s : p \in FmtPrefixes, s \in FmtStrings }

FmtObjects ==
    { MkObj(BoolV(f[1]), BoolV(f[2]), StrV(d), StrV(d), StrV(d)) :
        f \in {<<TRUE, TRUE>>, <<TRUE, FALSE>>, <<FALSE, FALSE>>},
        d \in FmtDrafts }

\* A parsed object that passed `if not ai_output` is not empty.
ComposeObjects == { o \in NormObjects \cup FmtObjects : DOMAIN o # {} }

\* A run that fetched the newest of i unread messages and got its
\* classification at the first attempt, about to normalize it.
InitCompose ==
    /\ emailCreds = TRUE
    /\ clientOk = TRUE
    /\ \E i \in 1..NumMsgs :
          /\ mailbox = [j \in 1..i |->
                          [Msg(j, "angle") EXCEPT !.seen = (j = i)]]
          /\ latest_id = i
          /\ marked = {i}
          /\ from_email = StrV(ExtractFrom(Msg(i, "angle").hdr))
          /\ subject = StrV(Msg(i, "angle").subject)
    /\ runs = 1
    /\ pc = "normalize"
    /\ network = {"imap_login", "imap_search", "imap_store", "imap_fetch",
                  "model"}
    /\ attempts = 1
    /\ failed = 0
    /\ sleeps = <<>>
    /\ \E o \in ComposeObjects :
          /\ response = TextResponse(Serialize(o))
          /\ raw_json_string = Serialize(o)
          /\ ai_output = DictOut(o)
    /\ is_technical = NullV
    /\ request_meeting = NullV
    /\ drafts = NoDrafts
    /\ route = ""
    /\ reply_draft = NullV
    /\ final_subject = <<>>
    /\ events = <<"fetch", "classify">>
    /\ sent = <<>>
    /\ outcome = ""
    /\ picked = [j \in 1..Len(mailbox) |-> IF j = latest_id THEN 1 ELSE 0]
    /\ abandoned = {}
    /\ workers = [w \in Workers |-> IdleWorker]

NextCompose ==
    \/ Normalize
    \/ Route
    \/ FormatCrash
    \/ FormatOk
    \/ SendOk
    \/ SendFail

SpecCompose == InitCompose /\ [][NextCompose]_vars

\* -------------------------------------- the workflow after the agent, as one
\* What main_agent_workflow does with the ai_output it got back: whether
\* _send_smtp_email is called, and with which body.
Workflow(out) ==
    IF NotAiOutput(out) THEN [send |-> FALSE, body |-> NullV]
    ELSE LET it == CoerceFlag(DictGet(out.d, "is_technical", BoolV(FALSE)))
             rm == CoerceFlag(DictGet(out.d, "request_meeting", BoolV(FALSE)))
             d == DictGet(out.d, SelectKey(it, rm), StrV(SAFE_DEFAULT_REPLY))
         IN IF d.t = "str"
            THEN [send |-> TRUE, body |-> StrV(FormatReply(d.s))]
            ELSE [send |-> FALSE, body |-> NullV]

\* ---------------------------------------- the extractor on its own inputs
\* The members a response text is made of.
AgentMembers ==
    { Member("is_technical", BoolV(TRUE)),
      Member("simple_reply_draft", StrV(<<"s">>)) }

AgentAlphabet == {LBrace, RBrace, Comma, Newline, Prose} \cup AgentMembers

\* Every text of up to MaxRaw tokens.
ShortTexts == UNION { [1..k -> AgentAlphabet] : k \in 0..MaxRaw }

AgentObjects ==
    { MkObj(it, AbsentV, s, AbsentV, AbsentV) :
        it \in {AbsentV, BoolV(TRUE)}, s \in {AbsentV, StrV(<<"s">>)} }

\* What stands around an object: nothing, a word, a line break, lines.
ProseRuns == { <<>>, <<Prose>>, <<Newline>>, <<Prose, Newline, Prose>> }

\* One object with prose around it.
WrappedTexts ==
    { pre \o Serialize(o) \o post :
        pre \in ProseRuns, post \in ProseRuns, o \in AgentObjects }

\* Two objects side by side, with prose around and between them.
SiblingTexts ==
    { pre \o Serialize(o1) \o mid \o Serialize(o2) \o post :
        pre \in {<<>>, <<Prose>>}, mid \in ProseRuns,
        post \in {<<>>, <<Prose>>}, o1 \in AgentObjects, o2 \in AgentObjects }

RawTexts == ShortTexts \cup WrappedTexts \cup SiblingTexts

\* main_agent_workflow has fetched a message and calls _run_ai_agent.
InitExtract ==
    /\ emailCreds = TRUE
    /\ clientOk \in BOOLEAN
    /\ mailbox = <<[Msg(1, "angle") EXCEPT !.seen = TRUE]>>
    /\ latest_id = 1
    /\ marked = {1}
    /\ from_email = StrV(ExtractFrom(Msg(1, "angle").hdr))
    /\ subject = StrV(Msg(1, "angle").subject)
    /\ runs = 1
    /\ pc = "classify"
    /\ network = {"imap_login", "imap_search", "imap_store", "imap_fetch"}
    /\ attempts = 0
    /\ failed = 0
    /\ sleeps = <<>>
    /\ response = NoResponse
    /\ raw_json_string = <<>>
    /\ ai_output = NoneOut
    /\ is_technical = NullV
    /\ request_meeting = NullV
    /\ drafts = NoDrafts
    /\ route = ""
    /\ reply_draft = NullV
    /\ final_subject = <<>>
    /\ events = <<"fetch", "classify">>
    /\ sent = <<>>
    /\ outcome = ""
    /\ picked = [j \in 1..Len(mailbox) |-> IF j = latest_id THEN 1 ELSE 0]
    /\ abandoned = {}
    /\ workers = [w \in Workers |-> IdleWorker]

\* The first attempt of the loop on every text, and what the workflow
\* makes of a parsed one.
NextExtract ==
    \/ AiNoClient
    \/ attempts = 0 /\ AiCallRaises
    \/ attempts = 0 /\ \E text \in RawTexts : AiResponse(text)
    \/ MainAiAbort
    \/ MainAiProceed

SpecExtract == InitExtract /\ [][NextExtract]_vars

\* ----------------------------------------- two invocations on one mailbox
\* What a single run keeps; the concurrent invocations leave it alone.
soloVars == <<runs, pc, fetchVars, aiVars, composeVars, events, sent, outcome,
              network, abandoned>>

\* mail.search(None, 'UNSEEN') answers with no id: return None, None, None
WSearchEmpty(w) ==
    /\ workers[w].pc = "search"
    /\ Unseen = {}
    /\ workers' = [workers EXCEPT ![w].pc = "done"]
    /\ UNCHANGED <<envVars, mailbox, picked, soloVars>>

\* status, data = mail.search(None, 'UNSEEN'); ids = data[0].split()
WSearch(w) ==
    /\ workers[w].pc = "search"
    /\ Unseen # {}
    /\ workers' = [workers EXCEPT ![w].pc = "store", ![w].ids = Unseen]
    /\ UNCHANGED <<envVars, mailbox, picked, soloVars>>

\* latest_id = ids[-1]; mail.store(latest_id, '+FLAGS', '\\Seen')
WStore(w) ==
    /\ workers[w].pc = "store"
    /\ workers' = [workers EXCEPT ![w].pc = "fetch",
                                  ![w].latest_id = MaxOf(workers[w].ids)]
    /\ mailbox' = MarkSeen(mailbox, MaxOf(workers[w].ids))
    /\ picked' = [picked EXCEPT ![MaxOf(workers[w].ids)] = @ + 1]
    /\ UNCHANGED <<envVars, soloVars>>

\* mail.fetch and the decoding: the sender's address, or None when the
\* payload does not decode.
WFetch(w) ==
    /\ workers[w].pc = "fetch"
    /\ workers' =
          [workers EXCEPT
             ![w].pc = "main",
             ![w].from_email =
                 IF mailbox[workers[w].latest_id].decodable
                 THEN StrV(ExtractFrom(mailbox[workers[w].latest_id].hdr))
                 ELSE NullV]
    /\ UNCHANGED <<envVars, mailbox, picked, soloVars>>

\* An IMAP command of the invocation raises: caught, return None, None, None
WImapError(w) ==
    /\ workers[w].pc \in {"search", "store", "fetch"}
    /\ workers' = [workers EXCEPT ![w].pc = "main", ![w].from_email = NullV]
    /\ UNCHANGED <<envVars, mailbox, picked, soloVars>>

\* if not from_email: return
WNoMessage(w) ==
    /\ workers[w].pc = "main"
    /\ NoMessage(workers[w].from_email)
    /\ workers' = [workers EXCEPT ![w].pc = "done"]
    /\ UNCHANGED <<envVars, mailbox, picked, soloVars>>

\* The rest of the run on a fetched message: it ends with the reply sent,
\* or without one (classification abort, crash, failed send).
WFinish(w, replied) ==
    /\ workers[w].pc = "main"
    /\ ~NoMessage(workers[w].from_email)
    /\ workers' = [workers EXCEPT ![w].pc = "done", ![w].replied = replied]
    /\ UNCHANGED <<envVars, mailbox, picked, soloVars>>

\* Both invocations were started on the same mailbox.
InitConcurrent ==
    /\ emailCreds = TRUE
    /\ clientOk = TRUE
    /\ mailbox \in Mailboxes
    /\ runs = 0
    /\ pc = "idle"
    /\ latest_id = 0
    /\ marked = {}
    /\ from_email = NullV
    /\ subject = NullV
    /\ attempts = 0
    /\ failed = 0
    /\ sleeps = <<>>
    /\ response = NoResponse
    /\ raw_json_string = <<>>
    /\ ai_output = NoneOut
    /\ is_technical = NullV
    /\ request_meeting = NullV
    /\ drafts = NoDrafts
    /\ route = ""
    /\ reply_draft = NullV
    /\ final_subject = <<>>
    /\ events = <<>>
    /\ sent = <<>>
    /\ outcome = ""
    /\ network = {}
    /\ picked = [i \in 1..Len(mailbox) |-> 0]
    /\ abandoned = {}
    /\ workers = [w \in Workers |-> [IdleWorker EXCEPT !.pc = "search"]]

NextConcurrent ==
    \E w \in Workers :
        \/ WSearchEmpty(w)
        \/ WSearch(w)
        \/ WStore(w)
        \/ WFetch(w)
        \/ WImapError(w)
        \/ WNoMessage(w)
        \/ \E replied \in BOOLEAN : WFinish(w, replied)

SpecConcurrent == InitConcurrent /\ [][NextConcurrent]_vars

\* ================================================================= claims

\* --- C1 -------------------------------------------------------------------
\* C1: a run makes at most 3 backend call attempts; when all 3 attempts
\* failed, _run_ai_agent has returned None, the run ends as an abort and
\* _send_smtp_email was not called in that run.
C1_AtMostThreeAttemptsThenAbort ==
    /\ attempts <= 3
    /\ failed <= attempts
    /\ (failed = 3 =>
          /\ pc \in {"check_ai", "done"}
          /\ ai_output.isNone
          /\ sent = <<>>
          /\ "send" \notin {events[i] : i \in 1..Len(events)}
          /\ (pc = "done" => outcome = "ai_abort"))

\* Three attempts failed and the run is over.
C1_Witness == failed = 3 /\ attempts = 3 /\ pc = "done"

\* --- C3 -------------------------------------------------------------------
\* C3: once a response was parsed into a JSON object (any object, the empty
\* one included), the run does not abort: it ends with exactly one call of
\* _send_smtp_email.
C3_ParsedAlwaysSends ==
    (pc = "done" /\ ~ai_output.isNone) =>
        (outcome = "completed" /\ Len(sent) = 1)

\* --- C4 -------------------------------------------------------------------
\* C4: the calls of a run happen in the order fetch, classify, send;
\* _send_smtp_email is called at most once, and only after the fetch gave a
\* message and the classification gave a result; a run that aborted sent
\* nothing.
C4_FetchClassifySendOnce ==
    /\ events \in { <<>>, <<"fetch">>, <<"fetch", "classify">>,
                    <<"fetch", "classify", "send">> }
    /\ Len(sent) <= 1
    /\ (Len(sent) = 1) = (events = <<"fetch", "classify", "send">>)
    /\ \A i \in 1..Len(sent) :
          /\ latest_id \in marked
          /\ from_email.t = "str" /\ from_email.s # <<>>
          /\ sent[i].to = from_email
          /\ ~ai_output.isNone
    /\ (outcome \in {"no_message", "ai_abort", "crashed"} => sent = <<>>)

\* A run that went through all three calls and ended.
C4_Witness ==
    pc = "done" /\ Len(sent) = 1 /\ events = <<"fetch", "classify", "send">>

\* --- C5 -------------------------------------------------------------------
\* C5: when the mailbox reader returns no message the run ends with no side
\* effect (nothing marked seen, no backend call, no send, no second fetch),
\* and a run marks at most one message seen.
C5_NoMessageNoSideEffects ==
    /\ Cardinality(marked) <= 1
    /\ (outcome = "no_message" =>
          /\ marked = {}
          /\ attempts = 0
          /\ sent = <<>>
          /\ events = <<"fetch">>)

\* --- C2 -------------------------------------------------------------------
\* C2: on the normalized (is_technical, request_meeting) the router takes
\* meeting_suggestion_draft when both are true, simple_reply_draft when only
\* is_technical is true, non_technical_reply_draft whenever is_technical is
\* false, whatever request_meeting is; nothing else is ever selected.  (True
\* and false are read as the if statement reads them.)
C2_RouterTable ==
    route # "" =>
        /\ route \in DraftKeys
        /\ (Truthy(is_technical) /\ Truthy(request_meeting)
              => route = "meeting_suggestion_draft")
        /\ (Truthy(is_technical) /\ ~Truthy(request_meeting)
              => route = "simple_reply_draft")
        /\ (~Truthy(is_technical) => route = "non_technical_reply_draft")
        /\ (pc = "format" => reply_draft = drafts[route])

\* The router ignored a true request_meeting because is_technical is false.
C2_Witness ==
    /\ pc = "format"
    /\ is_technical = BoolV(FALSE)
    /\ request_meeting = BoolV(TRUE)
    /\ route = "non_technical_reply_draft"

\* --- C6 -------------------------------------------------------------------
\* C6: for a parsed object whose draft field is absent, null or not a
\* string, normalization does not raise and the field becomes the safe
\* default text; a string is kept as it is.
C6_DraftsSafeDefaulted ==
    pc \in {"route", "format", "send", "done"} =>
        /\ outcome # "crashed"
        /\ \A k \in DraftKeys :
              drafts[k] =
                 IF DictGet(ai_output.d, k, AbsentV).t = "str"
                 THEN ai_output.d[k]
                 ELSE StrV(SAFE_DEFAULT_REPLY)

\* --- C7 -------------------------------------------------------------------
\* What the claim says a flag counts as: a native boolean as it is, a string
\* spelling true in any case as true, everything else as false.
C7_ClaimedFlag(v) ==
    CASE v.t = "bool" -> v.b
      [] v.t = "str" -> Lower(v.s) = <<"t","r","u","e">>
      [] OTHER -> FALSE

\* C7: the router treats each flag of the parsed object as: a native
\* true/false as is, a string equal to "true"/"false" ignoring case as that
\* boolean, and any other value (absent, null, number, other string, list,
\* object) as false.
C7_FlagsOtherwiseFalse ==
    route # "" =>
        route =
          IF C7_ClaimedFlag(DictGet(ai_output.d, "is_technical", AbsentV))
          THEN IF C7_ClaimedFlag(
                     DictGet(ai_output.d, "request_meeting", AbsentV))
               THEN "meeting_suggestion_draft"
               ELSE "simple_reply_draft"
          ELSE "non_technical_reply_draft"

\* --- C8 -------------------------------------------------------------------
\* A '<', then one or more characters other than '>', then a '>'.
C8_HasTag(s) ==
    \E i \in 1..Len(s) : \E j \in (i + 2)..Len(s) :
        /\ s[i] = "<"
        /\ s[j] = ">"
        /\ \A k \in (i + 1)..(j - 1) : s[k] # ">"

\* C8: the body given to _send_smtp_email holds no angle-bracket tag: no
\* '<' that is followed, after some text without '>', by a '>'.
C8_SentBodyHasNoTag ==
    \A i \in 1..Len(sent) :
        sent[i].body.t = "str" /\ ~C8_HasTag(sent[i].body.s)

\* A draft with a tag in it was selected, formatted and sent.
C8_Witness ==
    /\ Len(sent) = 1
    /\ drafts[route].t = "str"
    /\ C8_HasTag(drafts[route].s)
    /\ RemoveTags(drafts[route].s) # <<>>

\* --- C9 -------------------------------------------------------------------
\* C9: the formatter is idempotent: applied to its own output, for any
\* draft (the empty one and those that clean up to empty included), it
\* returns that output unchanged.
C9_FormatterIdempotent ==
    (pc \in {"send", "done"} /\ outcome # "crashed") =>
        FormatReply(reply_draft.s) = reply_draft.s

\* --- C10 ------------------------------------------------------------------
\* The greeting tokens as the claim lists them.
C10_Tokens ==
    { <<"h","e","l","l","o">>, <<"h","i">>, <<"d","e","a","r">>,
      <<"t","h","a","n","k"," ","y","o","u">> }

\* s begins with one of the tokens, whatever the case of its letters.
C10_BeginsWithToken(s) ==
    \E p \in C10_Tokens :
        /\ Len(p) <= Len(s)
        /\ \A i \in 1..Len(p) : LowerChar(s[i]) = p[i]

\* C10: the final body begins with a greeting token; "Hello,\n\n" is put in
\* front of the tag-stripped, trimmed draft exactly when that draft does not
\* begin with one, and otherwise the draft stands as it is; the final
\* subject is "Re: " followed by the original subject.
C10_GreetingAndSubject ==
    \A i \in 1..Len(sent) :
        LET cleaned == Strip(RemoveTags(drafts[route].s))
            body == sent[i].body.s
        IN /\ C10_BeginsWithToken(body)
           /\ (C10_BeginsWithToken(cleaned) => body = cleaned)
           /\ (~C10_BeginsWithToken(cleaned) =>
                  body = <<"H","e","l","l","o",",","\n","\n">> \o cleaned)
           /\ sent[i].subject = <<"R","e",":"," ">> \o subject.s

\* A draft that opens with "dEAR" went out without a prepended line, in
\* reply to the second message.
C10_Witness ==
    /\ Len(sent) = 1
    /\ StartsWith(drafts[route].s, <<"d","E","A","R">>)
    /\ sent[1].body.s = Strip(RemoveTags(drafts[route].s))
    /\ sent[1].subject = <<"R","e",":"," ","S","2">>

\* --- C11 ------------------------------------------------------------------
\* The latest response arrived as text but has no {...} span, or has a span
\* json.loads rejects.
C11_Malformed ==
    /\ response.kind = "text"
    /\ \/ ~\E i \in 1..Len(response.text) : \E j \in (i + 1)..Len(response.text) :
             response.text[i] = LBrace /\ response.text[j] = RBrace
       \/ ~IsJsonObject(raw_json_string)

\* C11: a response without a {...} span, or with a span that does not parse,
\* is handled as a backend call that raised is: it uses up one of the three
\* attempts, is followed by the same sleep and by a further attempt while
\* attempts remain, and is never taken as the result; after the third the
\* run aborts without a send.
C11_MalformedIsAFailedAttempt ==
    (C11_Malformed \/ response = Raised) =>
        /\ failed = attempts
        /\ attempts \in 1..3
        /\ ai_output.isNone
        /\ Len(sleeps) = (IF failed < 3 THEN failed ELSE 2)
        /\ \A i \in 1..Len(sleeps) : sleeps[i] = SleepTime(i - 1)
        /\ (failed < 3 => pc = "classify" /\ outcome = "")
        /\ (failed = 3 => pc \in {"check_ai", "done"} /\ sent = <<>>)
        /\ (pc = "done" => outcome = "ai_abort")

\* A span that is not JSON was the second failure: the loop slept and goes on.
C11_Witness ==
    /\ response.kind = "text"
    /\ raw_json_string # <<>>
    /\ ~IsJsonObject(raw_json_string)
    /\ failed = 2
    /\ pc = "classify"
    /\ Len(sleeps) = 2

\* --- C12 ------------------------------------------------------------------
\* C12: when two invocations of main_agent_workflow run on the same mailbox
\* with their IMAP commands interleaved, no message is fetched and replied
\* to by both of them.
C12_NoDuplicateProcessing ==
    \A w1 \in Workers : \A w2 \in Workers \ {w1} :
        (workers[w1].replied /\ workers[w2].replied) =>
            workers[w1].latest_id # workers[w2].latest_id

\* --- C13 ------------------------------------------------------------------
\* C13: in a run where a required credential is missing (the mailbox
\* credentials, or the API key so that no client exists), no network call is
\* made: no IMAP login, search or store, no model call, no SMTP connection.
C13_NoNetworkWithoutCredentials ==
    (~emailCreds \/ ~clientOk) => network = {}

\* --- C14 ------------------------------------------------------------------
\* C14: a send that fails is final: _send_smtp_email has returned False, it
\* was called once and is not called again in the run, and the run has ended
\* the normal way, with no exception out of main_agent_workflow.
C14_FailedSendIsFinal ==
    (sent # <<>> /\ ~sent[Len(sent)].ok) =>
        /\ Len(sent) = 1
        /\ pc = "done"
        /\ outcome = "completed"
        /\ Len(SelectSeq(events, LAMBDA e : e = "send")) = 1

\* The send of a run with credentials failed and the run is over.
C14_Witness ==
    /\ emailCreds
    /\ Len(sent) = 1
    /\ ~sent[1].ok
    /\ sent[1].to = from_email
    /\ "smtp" \in network
    /\ pc = "done"

\* --- C15 ------------------------------------------------------------------
\* C15 as stated: a run with three failed attempts has waited 1 second and
\* then 2 seconds.
C15_WaitsOneThenTwo ==
    failed = 3 => sleeps = <<1, 2>>

\* C15, amended: after the failed attempt with 0-based index i that is not
\* the last, the loop sleeps 2^(i+1) seconds, which makes the waits of a run
\* with three failures 2 seconds and then 4 seconds; the third failure is
\* followed by no sleep.
C15_WaitsTwoThenFour ==
    /\ Len(sleeps) = (IF failed < 3 THEN failed ELSE 2)
    /\ \A k \in 1..Len(sleeps) : sleeps[k] = 2 ^ k
    /\ (failed = 3 => sleeps = <<2, 4>>)

\* Three attempts failed and the run has waited twice.
C15_Witness ==
    /\ failed = 3
    /\ attempts = 3
    /\ sleeps = <<2, 4>>
    /\ ai_output.isNone

\* --- C16 ------------------------------------------------------------------
\* C16: over the runs made one after another, \Seen is on the selected
\* message before its classification starts, no message is selected by more
\* than one run, and a message whose run gave up after three failed attempts
\* stays seen, is not selected by a later run and gets no reply.
C16_AbandonedNeverAgain ==
    /\ \A m \in 1..Len(mailbox) :
          /\ picked[m] <= 1
          /\ (picked[m] = 1 => mailbox[m].seen)
    /\ (attempts >= 1 => mailbox[latest_id].seen /\ picked[latest_id] = 1)
    /\ \A m \in abandoned :
          /\ mailbox[m].seen
          /\ picked[m] = 1
          /\ (latest_id = m =>
                 pc = "done" /\ outcome = "ai_abort" /\ sent = <<>>)
          /\ \A k \in 1..Len(sent) :
                sent[k].to # StrV(ExtractFrom(mailbox[m].hdr))

\* The first run gave up on message 2 after three failures; the second run
\* took message 1 and sent its reply.
C16_Witness ==
    /\ runs = 2
    /\ abandoned = {2}
    /\ latest_id = 1
    /\ Len(sent) = 1
    /\ sent[1].to = StrV(ExtractFrom(mailbox[1].hdr))

\* --- C17 ------------------------------------------------------------------
\* The positions of the opening and of the closing braces of the latest
\* response text, the first and the last of each.
C17_Opens == {i \in 1..Len(response.text) : response.text[i] = LBrace}

C17_Closes == {i \in 1..Len(response.text) : response.text[i] = RBrace}

C17_MinOf(S) == CHOOSE x \in S : \A y \in S : x <= y

C17_Part(i, j) == SubSeq(response.text, i, j)

\* The text holds one object and, around it, tokens that are no braces.
C17_OneObject ==
    /\ Cardinality(C17_Opens) = 1
    /\ Cardinality(C17_Closes) = 1
    /\ \E o \in AgentObjects :
          C17_Part(MaxOf(C17_Opens), MaxOf(C17_Closes)) = Serialize(o)

\* The text holds two objects, one after the other, and no further brace.
C17_TwoObjects ==
    /\ Cardinality(C17_Opens) = 2
    /\ Cardinality(C17_Closes) = 2
    /\ C17_MinOf(C17_Closes) < MaxOf(C17_Opens)
    /\ \E o1 \in AgentObjects : \E o2 \in AgentObjects :
          /\ C17_Part(C17_MinOf(C17_Opens), C17_MinOf(C17_Closes))
                = Serialize(o1)
          /\ C17_Part(MaxOf(C17_Opens), MaxOf(C17_Closes)) = Serialize(o2)

\* C17: the candidate taken from a response text runs from its first '{' to
\* its last '}', line breaks included, and there is none when no '}' follows
\* the first '{'. One object with prose before and after it is returned as
\* it stands. Two objects side by side give one span over both, which does
\* not parse: the attempt counts as failed and nothing is returned.
C17_GreedySpan ==
    response.kind = "text" =>
        /\ IF C17_Opens # {} /\ C17_Closes # {}
              /\ C17_MinOf(C17_Opens) < MaxOf(C17_Closes)
           THEN raw_json_string =
                   C17_Part(C17_MinOf(C17_Opens), MaxOf(C17_Closes))
           ELSE raw_json_string = <<>> /\ failed = 1 /\ ai_output.isNone
        /\ C17_OneObject =>
              /\ failed = 0
              /\ ~ai_output.isNone
              /\ Serialize(ai_output.d) = raw_json_string
              /\ raw_json_string =
                    C17_Part(MaxOf(C17_Opens), MaxOf(C17_Closes))
        /\ C17_TwoObjects =>
              /\ ai_output.isNone
              /\ failed = 1
              /\ attempts = 1
              /\ Len(sleeps) = 1

\* Two objects on two lines behind a word of prose: one span over both, the
\* attempt failed and the loop has slept once.
C17_Witness ==
    /\ response.kind = "text"
    /\ C17_TwoObjects
    /\ response.text[1] = Prose
    /\ Newline \in {response.text[i] : i \in 1..Len(response.text)}
    /\ raw_json_string = C17_Part(2, Len(response.text))
    /\ Len(raw_json_string) >= 7
    /\ failed = 1
    /\ Len(sleeps) = 1
    /\ pc = "classify"

\* --- C18 ------------------------------------------------------------------
\* C18: a run makes no backend call after its first parsed response, sleeps
\* at most twice, and ends in one of three ways: the no-message exit, the
\* classification abort, or the completion after a single send attempt.
C18_RunEndsInOneOfThreeWays ==
    /\ attempts <= 3
    /\ attempts - failed <= 1
    /\ Len(sleeps) <= 2
    /\ (pc = "done" =>
          /\ outcome \in {"no_message", "ai_abort", "completed"}
          /\ (outcome = "completed" => Len(sent) = 1))

\* --- C19 ------------------------------------------------------------------
\* C19: the fetch stores \Seen on the newest unseen message before it
\* retrieves and decodes the message; when a later step of the fetch fails
\* or the From header is empty, the run ends as "no message", with no model
\* call and no send attempt, and the message stays seen.
C19_SeenThenNoMessage ==
    /\ (pc = "stored" =>
          /\ latest_id \in marked
          /\ mailbox[latest_id].seen
          /\ "imap_store" \in network
          /\ "imap_fetch" \notin network
          /\ from_email = NullV)
    /\ ("imap_fetch" \in network =>
          "imap_store" \in network /\ mailbox[latest_id].seen)
    /\ ((marked # {} /\ pc \notin {"fetch", "stored"}
            /\ (from_email = NullV \/ from_email = StrV(<<>>))) =>
          /\ pc \in {"fetched", "done"}
          /\ (pc = "done" => outcome = "no_message")
          /\ attempts = 0
          /\ "model" \notin network
          /\ "smtp" \notin network
          /\ sent = <<>>
          /\ \A m \in marked : mailbox[m].seen)

\* The newest message had no From header: it is seen, and the run ended as
\* "no message".
C19_Witness ==
    /\ marked = {latest_id}
    /\ mailbox[latest_id].hdr = <<>>
    /\ mailbox[latest_id].seen
    /\ from_email = StrV(<<>>)
    /\ "imap_fetch" \in network
    /\ pc = "done"
    /\ outcome = "no_message"

\* --- C20 ------------------------------------------------------------------
\* What a draft field can be turned into: removed, null, a number, another
\* string.
C20_Values == {AbsentV, NullV, NumV(1), StrV(<<"x">>)}

\* The parsed objects that differ from d in nothing but the two draft
\* fields the router does not select for d.
C20_Variants(d) ==
    LET sel == SelectKey(
                  CoerceFlag(DictGet(d, "is_technical", BoolV(FALSE))),
                  CoerceFlag(DictGet(d, "request_meeting", BoolV(FALSE))))
        others == DraftKeys \ {sel}
    IN { [k \in (DOMAIN d \ others) \cup {u \in others : v[u] # AbsentV} |->
            IF k \in others THEN v[k] ELSE d[k]] :
         v \in [others -> C20_Values] }

\* C20: the body sent, and whether a send happens at all, stay the same
\* when the two draft fields the router did not select are changed, removed
\* or corrupted in the parsed object.
C20_UnselectedDraftsDoNotMatter ==
    (pc = "done" /\ ~ai_output.isNone) =>
        /\ Workflow(ai_output).send = (sent # <<>>)
        /\ \A d2 \in C20_Variants(ai_output.d) :
              /\ Workflow(DictOut(d2)).send = (sent # <<>>)
              /\ (sent # <<>> => Workflow(DictOut(d2)).body = sent[1].body)

====
